---- MODULE Spec2Model ----
(***************************************************************************)
(* pysysmon (src/src/app.py): a periodic host-metrics collector.  main()   *)
(* builds a DBClient from the environment and the --no-db flag, resolves   *)
(* the hostname tag, then loops: get_metics(), post_metrics(), sleep.      *)
(*                                                                         *)
(* Python strings are tuples of one-character strings, so that f-string   *)
(* formatting is concatenation and str.split / str.replace are computed.  *)
(* Python dicts are functions whose DOMAIN is the key set.                *)
(***************************************************************************)
EXTENDS Integers, Sequences, FiniteSets, TLC

VARIABLES
    pc,          \* position of main(): start, collecting, dispatching, sleeping, terminated
    environ,     \* os.environ: a function from the variables that are set to their values
    no_db,       \* args.no_db
    sensors,     \* the host's temperature chips, in the order psutil reports them
    connect,     \* DBClient.connect
    client,      \* TRUE when DBClient.client (an InfluxDBClient) has been constructed
    warnings,    \* the records logged by logger.warn, oldest first
    hostname,    \* main()'s local hostname
    metrics,     \* main()'s local metrics (the value of get_metics())
    diskReading, \* the host's answer to psutil.disk_usage for each configured path, this cycle
    json_body,   \* the batch post_metrics handed to DBClient.write_points in this cycle
    cycle,       \* loop iterations begun
    wpCalls,     \* calls of DBClient.write_points
    sinkWrites,  \* calls of InfluxDBClient.write_points
    fault        \* what raised and ended the process, or "none"

vars == <<pc, environ, no_db, sensors, connect, client, warnings, hostname,
          metrics, diskReading, json_body, cycle, wpCalls, sinkWrites, fault>>

----------------------------------------------------------------------------
(* Bounds *)

MaxCycles == 2

MaxPathChars == 3

MaxProbes == 2

----------------------------------------------------------------------------
(* Python values *)

\* None where a string is expected
None == <<"None">>

\* None where a number is expected (x or None); readings are never negative
NoneNum == -1

\* bool(s) for a string or None
Truthy(s) == s # None /\ s # <<>>

\* s or None
OrNone(s) == IF Truthy(s) THEN s ELSE None

\* x or None, for a number
OrNoneNum(x) == IF x = 0 THEN NoneNum ELSE x

\* str(v) for a string or None, as an f-string renders it
Str(v) == IF v = None THEN <<"N","o","n","e">> ELSE v

Digits == <<"0","1","2","3","4","5","6","7","8","9">>

\* str(n) for a non-negative integer
RECURSIVE StrInt(_)
StrInt(n) == IF n < 10 THEN <<Digits[n + 1]>>
             ELSE StrInt(n \div 10) \o <<Digits[(n % 10) + 1]>>

\* str.lower, on the letters the model's strings use
LowerChar(c) == CASE c = "N" -> "n" [] c = "Y" -> "y" [] c = "E" -> "e"
                  [] c = "S" -> "s" [] OTHER -> c

Lower(s) == [i \in DOMAIN s |-> LowerChar(s[i])]

\* s.replace(' ', '_')
ReplaceSpace(s) == [i \in DOMAIN s |-> IF s[i] = " " THEN "_" ELSE s[i]]

RECURSIVE Split(_)
\* s.split(",")
Split(s) ==
    IF \A i \in DOMAIN s : s[i] # ","
    THEN <<s>>
    ELSE LET k == CHOOSE i \in DOMAIN s : s[i] = "," /\ \A j \in 1..(i - 1) : s[j] # ","
         IN  <<SubSeq(s, 1, k - 1)>> \o Split(SubSeq(s, k + 1, Len(s)))

EmptyDict == [k \in {} |-> 0]

\* d[k] = v
DictSet(d, k, v) == [x \in (DOMAIN d) \cup {k} |-> IF x = k THEN v ELSE d[x]]

\* for k, v in b.items(): a[k] = v
DictUpdate(a, b) == [x \in (DOMAIN a) \cup (DOMAIN b) |-> IF x \in DOMAIN b THEN b[x] ELSE a[x]]

----------------------------------------------------------------------------
(* Environment *)

\* os.getenv(name, default)
Getenv(name, default) == IF name \in DOMAIN environ THEN environ[name] ELSE default

\* os.environ.get(name)
EnvironGet(name) == Getenv(name, None)

APP_HOSTNAME == Getenv("APP_HOSTNAME", Getenv("HOST", Getenv("HOSTNAME", None)))

INFLUXDB_DBNAME == EnvironGet("INFLUXDB_DBNAME")

APP_DISK_USAGE_PATHS ==
    IF "APP_DISK_USAGE_PATHS" \in DOMAIN environ /\ environ["APP_DISK_USAGE_PATHS"] # <<>>
    THEN environ["APP_DISK_USAGE_PATHS"]
    ELSE <<"/">>

\* socket.gethostname()
gethostname == <<"o","s">>

----------------------------------------------------------------------------
(* The host metrics provider (psutil): the readings a call may return *)

Readings == {0, 1}

\* psutil.virtual_memory(): total and used
MemoryReadings == [total : Readings, used : Readings]

CpuFields == {"count", "frequency", "percent", "load_1", "load_5", "load_15"}

\* psutil.cpu_count(), cpu_freq().current, cpu_percent(), getloadavg():
\* the readings in which at most one figure is zero
CpuReadings == {r \in [CpuFields -> Readings] : Cardinality({f \in CpuFields : r[f] = 0}) <= 1}

\* the current temperature the probes report in one cycle
Temps == {0, 40}

\* psutil.disk_usage(path): a usage tuple, or an OSError (ok = FALSE)
DiskUsages == {[ok |-> TRUE, total |-> 8, used |-> 2, free |-> 6, percent |-> 25],
               [ok |-> TRUE, total |-> 8, used |-> 0, free |-> 8, percent |-> 0]}

DiskError == [ok |-> FALSE, total |-> 0, used |-> 0, free |-> 0, percent |-> 0]

DiskOutcomes == DiskUsages \cup {DiskError}

\* what the host may answer for each of the paths: the empty path names no file
DiskReadings(paths) ==
    {r \in [DOMAIN paths -> DiskOutcomes] : \A i \in DOMAIN paths : paths[i] = <<>> => ~r[i].ok}

\* psutil.sensors_temperatures(): every probe of every chip, reporting t
sensors_temperatures(t) ==
    [k \in DOMAIN sensors |->
        [name |-> sensors[k].name,
         measurements |-> [i \in DOMAIN sensors[k].labels |->
                              [label |-> sensors[k].labels[i], current |-> t]]]]

----------------------------------------------------------------------------
(* Field names *)

K_memory_total == <<"m","e","m","o","r","y","_","t","o","t","a","l">>
K_memory_used == <<"m","e","m","o","r","y","_","u","s","e","d">>
K_cpu_count == <<"c","p","u","_","c","o","u","n","t">>
K_cpu_frequency == <<"c","p","u","_","f","r","e","q","u","e","n","c","y">>
K_cpu_percent == <<"c","p","u","_","p","e","r","c","e","n","t">>
K_cpu_load_1 == <<"c","p","u","_","l","o","a","d","_","1">>
K_cpu_load_5 == <<"c","p","u","_","l","o","a","d","_","5">>
K_cpu_load_15 == <<"c","p","u","_","l","o","a","d","_","1","5">>

S_disk_usage_ == <<"d","i","s","k","_","u","s","a","g","e","_">>
S_total == <<"_","t","o","t","a","l">>
S_used == <<"_","u","s","e","d">>
S_free == <<"_","f","r","e","e">>
S_percent == <<"_","p","e","r","c","e","n","t">>
S_current == <<"_","c","u","r","r","e","n","t">>

\* f"disk_usage_{path}_total" and its three siblings
DiskKey(path, suffix) == S_disk_usage_ \o path \o suffix

----------------------------------------------------------------------------
(* Metric readers *)

\* DiskStore without the line that stores usage.free
DiskStore_no_free(result, path, usage) ==
    DictSet(DictSet(DictSet(result,
        DiskKey(path, S_total), usage.total),
        DiskKey(path, S_used), usage.used),
        DiskKey(path, S_percent), usage.percent)

\* the body of get_disk_usage's loop for one path, the query having succeeded
DiskStore(result, path, usage) ==
    DictSet(DictSet(DictSet(DictSet(result,
        DiskKey(path, S_total), usage.total),
        DiskKey(path, S_used), usage.used),
        DiskKey(path, S_free), usage.free),
        DiskKey(path, S_percent), usage.percent)

RECURSIVE DiskLoop(_, _, _, _)
\* get_disk_usage's loop from the i-th path on; no query fails
DiskLoop(paths, reading, i, result) ==
    IF i > Len(paths) THEN result
    ELSE DiskLoop(paths, reading, i + 1, DiskStore(result, paths[i], reading[i]))

\* get_disk_usage(), when every psutil.disk_usage(path) returns
get_disk_usage(reading) == DiskLoop(Split(APP_DISK_USAGE_PATHS), reading, 1, EmptyDict)

\* get_disk_usage() raises: some psutil.disk_usage(path) raises and nothing catches it
get_disk_usage_raises(reading) == \E i \in DOMAIN reading : ~reading[i].ok

get_memory(vm) == [total |-> vm.total, used |-> vm.used]

get_cpu(c) == [count |-> c["count"], frequency |-> c["frequency"], percent |-> c["percent"],
               load_1 |-> c["load_1"], load_5 |-> c["load_5"], load_15 |-> c["load_15"]]

\* measure_name for the probe at Python index `index` of chip sensor_name
MeasureName(sensor_name, label, index) ==
    LET measurement_label == IF label # <<>> THEN <<"_">> \o ReplaceSpace(label) ELSE <<>>
    IN  sensor_name \o measurement_label \o <<"_">> \o StrInt(index) \o S_current

RECURSIVE ProbeLoop(_, _, _, _)
\* the inner loop of get_temperature, from the i-th measurement on
ProbeLoop(sensor_name, measurements, i, body) ==
    IF i > Len(measurements) THEN body
    ELSE ProbeLoop(sensor_name, measurements, i + 1,
                   DictSet(body, MeasureName(sensor_name, measurements[i].label, i - 1),
                           measurements[i].current))

RECURSIVE SensorLoop(_, _, _)
\* the outer loop of get_temperature, from the k-th chip on
SensorLoop(result, k, body) ==
    IF k > Len(result) THEN body
    ELSE SensorLoop(result, k + 1, ProbeLoop(result[k].name, result[k].measurements, 1, body))

get_temperature(result) == SensorLoop(result, 1, EmptyDict)

get_metics(vm, c, temps, reading) ==
    [memory |-> get_memory(vm),
     cpu |-> get_cpu(c),
     temperature |-> get_temperature(temps),
     disk_usage |-> get_disk_usage(reading)]

----------------------------------------------------------------------------
(* Point builder *)

\* the fields literal of post_metrics
FixedFields(m) ==
    (K_memory_total :> OrNoneNum(m.memory.total)) @@
    (K_memory_used :> OrNoneNum(m.memory.used)) @@
    (K_cpu_count :> OrNoneNum(m.cpu.count)) @@
    (K_cpu_frequency :> OrNoneNum(m.cpu.frequency)) @@
    (K_cpu_percent :> OrNoneNum(m.cpu.percent)) @@
    (K_cpu_load_1 :> OrNoneNum(m.cpu.load_1)) @@
    (K_cpu_load_5 :> OrNoneNum(m.cpu.load_5)) @@
    (K_cpu_load_15 :> OrNoneNum(m.cpu.load_15))

\* the fields of the Point once both loops of post_metrics have run
PointFields(m) == DictUpdate(DictUpdate(FixedFields(m), m.temperature), m.disk_usage)

Point(m, host) == [measurement |-> "sysmon", tags |-> [hostname |-> host], fields |-> PointFields(m)]

\* post_metrics with the Point appended to the batch a second time
post_metrics_resend(m, host) == <<Point(m, host), Point(m, host)>>

\* the json_body post_metrics passes to client.write_points
post_metrics(m, host) == <<Point(m, host)>>

----------------------------------------------------------------------------
(* Connectivity: InfluxDBVars and DBClient *)

\* InfluxDBVars.__init__
InfluxDBVars ==
    [hostname |-> OrNone(EnvironGet("INFLUXDB_HOST")),
     port |-> OrNone(EnvironGet("INFLUXDB_PORT")),
     username |-> OrNone(EnvironGet("INFLUXDB_USERNAME")),
     password |-> OrNone(EnvironGet("INFLUXDB_PASSWORD")),
     dbname |-> OrNone(EnvironGet("INFLUXDB_DBNAME")),
     ssl |-> Lower(Str(OrNone(EnvironGet("INFLUXDB_SSL")))) \in {<<"1">>, <<"y">>, <<"y","e","s">>}]

Mask == <<"*","*","*">>

\* InfluxDBVars.__str__ with the password formatted like the other fields
InfluxDBVars_str_unmasked(v) ==
    [hostname |-> Str(v.hostname), port |-> Str(v.port), username |-> Str(v.username),
     password |-> Str(v.password),
     dbname |-> Str(v.dbname), ssl |-> v.ssl]

\* InfluxDBVars.__str__: the value each key=... of the rendered text carries
InfluxDBVars_str(v) ==
    [hostname |-> Str(v.hostname), port |-> Str(v.port), username |-> Str(v.username),
     password |-> IF Truthy(v.password) THEN Mask ELSE Str(v.password),
     dbname |-> Str(v.dbname), ssl |-> v.ssl]

\* InfluxDBVars.valid, as a truth value
InfluxDBVars_valid(v) == Truthy(v.hostname) /\ Truthy(v.port) /\ Truthy(v.dbname)

\* DBClient.__init__ that connects whatever the flag says
DBClient_connect_always(connect_arg, db_vars) == TRUE

\* self.connect once DBClient.__init__ has passed its first if/elif
DBClient_connect(connect_arg, db_vars) ==
    IF connect_arg /\ ~InfluxDBVars_valid(db_vars) THEN TRUE ELSE connect_arg

\* the records DBClient.__init__ passes to logger.warn
DBClient_warns(connect_arg, db_vars) ==
    IF connect_arg /\ ~InfluxDBVars_valid(db_vars) THEN <<InfluxDBVars_str(db_vars)>> ELSE <<>>

----------------------------------------------------------------------------
(* Initial states: the environment, the flag and the hardware *)

\* marks a variable that is not set
Unset == <<"unset">>

PathChars == {"/", "a", ","}

PathStrings == UNION {[1..n -> PathChars] : n \in 0..MaxPathChars}

\* the value a variable has when it is set and not empty
EnvValue(name) ==
    CASE name = "APP_HOSTNAME" -> <<"a","p","p">>
      [] name = "HOST" -> <<"h">>
      [] name = "HOSTNAME" -> <<"n">>
      [] name = "INFLUXDB_HOST" -> <<"i","n","f","l","u","x">>
      [] name = "INFLUXDB_PORT" -> <<"8","0","8","6">>
      [] name = "INFLUXDB_PASSWORD" -> <<"p","w">>
      [] name = "INFLUXDB_DBNAME" -> <<"d","b">>
      [] OTHER -> <<"x">>

\* the environments in which only the variables in names are set, each empty or to its value
EnvVarying(names) ==
    {[n \in {m \in names : f[m] # Unset} |-> f[n]] :
        f \in {g \in [names -> {Unset, <<>>} \cup {EnvValue(m) : m \in names}] :
                  \A m \in names : g[m] \in {Unset, <<>>, EnvValue(m)}}}

HostEnvs == EnvVarying({"APP_HOSTNAME", "HOST", "HOSTNAME"})

SinkEnvs == EnvVarying({"INFLUXDB_HOST", "INFLUXDB_PORT", "INFLUXDB_DBNAME", "INFLUXDB_PASSWORD"})

DiskEnvs == {[n \in {"APP_DISK_USAGE_PATHS"} |-> s] : s \in PathStrings}

Chips == <<<<"a">>, <<"a","_","b","_","c">>>>

Labels == {<<>>, <<"b"," ","c">>}

ProbeLabels == UNION {[1..n -> Labels] : n \in 0..MaxProbes}

\* the chips that have probes, in order
SensorSets ==
    {SelectSeq(<<[name |-> Chips[1], labels |-> p1], [name |-> Chips[2], labels |-> p2]>>,
               LAMBDA c : c.labels # <<>>) : p1 \in ProbeLabels, p2 \in ProbeLabels}

Configs ==
    {[environ |-> e, no_db |-> TRUE, sensors |-> <<>>] : e \in HostEnvs \cup DiskEnvs}
    \cup {[environ |-> e, no_db |-> n, sensors |-> <<>>] : e \in SinkEnvs, n \in BOOLEAN}
    \cup {[environ |-> EmptyDict, no_db |-> TRUE, sensors |-> s] : s \in SensorSets}

Init ==
    /\ \E c \in Configs :
        /\ environ = c.environ
        /\ no_db = c.no_db
        /\ sensors = c.sensors
    /\ pc = "start"
    /\ connect = FALSE
    /\ client = FALSE
    /\ warnings = <<>>
    /\ hostname = None
    /\ metrics = <<>>
    /\ diskReading = <<>>
    /\ json_body = <<>>
    /\ cycle = 0
    /\ wpCalls = 0
    /\ sinkWrites = 0
    /\ fault = "none"

----------------------------------------------------------------------------
(* main() *)

\* InfluxDBClient(host, port, ...) raises: its constructor takes int(port), and port is None
InfluxDBClient_raises(db_vars) == db_vars.port = None

\* main() up to the loop; InfluxDBClient(...), if called, and switch_database return
Startup ==
    /\ pc = "start"
    /\ connect' = DBClient_connect(~no_db, InfluxDBVars)
    /\ connect' => ~InfluxDBClient_raises(InfluxDBVars)
    /\ warnings' = warnings \o DBClient_warns(~no_db, InfluxDBVars)
    /\ client' = connect'
    /\ hostname' = IF Truthy(APP_HOSTNAME) THEN APP_HOSTNAME ELSE gethostname
    /\ pc' = "collecting"
    /\ UNCHANGED <<environ, no_db, sensors, metrics, diskReading, json_body, cycle,
                   wpCalls, sinkWrites, fault>>

\* main() up to DBClient(...): InfluxDBClient(...) raises; main() catches nothing
StartupFault ==
    /\ pc = "start"
    /\ connect' = DBClient_connect(~no_db, InfluxDBVars)
    /\ connect' /\ InfluxDBClient_raises(InfluxDBVars)
    /\ warnings' = warnings \o DBClient_warns(~no_db, InfluxDBVars)
    /\ fault' = "client"
    /\ pc' = "terminated"
    /\ UNCHANGED <<environ, no_db, sensors, client, hostname, metrics, diskReading,
                   json_body, cycle, wpCalls, sinkWrites>>

\* metrics = get_metics(), every reader returning
Collect ==
    /\ pc = "collecting"
    /\ \E vm \in MemoryReadings, c \in CpuReadings, t \in Temps,
          reading \in DiskReadings(Split(APP_DISK_USAGE_PATHS)) :
        /\ ~get_disk_usage_raises(reading)
        /\ metrics' = get_metics(vm, c, sensors_temperatures(t), reading)
        /\ diskReading' = reading
    /\ cycle' = cycle + 1
    /\ pc' = "dispatching"
    /\ UNCHANGED <<environ, no_db, sensors, connect, client, warnings, hostname,
                   json_body, wpCalls, sinkWrites, fault>>

\* get_metics(): get_memory, get_cpu or get_temperature raises; main() catches nothing
ReaderFault ==
    /\ pc = "collecting"
    /\ \E r \in {"memory", "cpu", "temperature"} : fault' = r
    /\ cycle' = cycle + 1
    /\ pc' = "terminated"
    /\ UNCHANGED <<environ, no_db, sensors, connect, client, warnings, hostname,
                   metrics, diskReading, json_body, wpCalls, sinkWrites>>

\* get_metics(): the three readers return, then psutil.disk_usage raises for some path
DiskFault ==
    /\ pc = "collecting"
    /\ \E reading \in DiskReadings(Split(APP_DISK_USAGE_PATHS)) :
        /\ get_disk_usage_raises(reading)
        /\ diskReading' = reading
    /\ fault' = "disk_usage"
    /\ cycle' = cycle + 1
    /\ pc' = "terminated"
    /\ UNCHANGED <<environ, no_db, sensors, connect, client, warnings, hostname,
                   metrics, json_body, wpCalls, sinkWrites>>

\* post_metrics(client, metrics, hostname) returns
Dispatch ==
    /\ pc = "dispatching"
    /\ json_body' = post_metrics(metrics, hostname)
    /\ wpCalls' = wpCalls + 1
    /\ sinkWrites' = IF connect THEN sinkWrites + 1 ELSE sinkWrites
    /\ pc' = "sleeping"
    /\ UNCHANGED <<environ, no_db, sensors, connect, client, warnings, hostname,
                   metrics, diskReading, cycle, fault>>

\* post_metrics(...): self.client.write_points raises; main() catches nothing
DispatchFault ==
    /\ pc = "dispatching"
    /\ connect
    /\ json_body' = post_metrics(metrics, hostname)
    /\ wpCalls' = wpCalls + 1
    /\ sinkWrites' = sinkWrites + 1
    /\ fault' = "dispatch"
    /\ pc' = "terminated"
    /\ UNCHANGED <<environ, no_db, sensors, connect, client, warnings, hostname,
                   metrics, diskReading, cycle>>

\* time.sleep(args.period), then the next iteration; the locals of the last one are gone
Sleep ==
    /\ pc = "sleeping"
    /\ cycle < MaxCycles
    /\ pc' = "collecting"
    /\ metrics' = <<>>
    /\ diskReading' = <<>>
    /\ json_body' = <<>>
    /\ UNCHANGED <<environ, no_db, sensors, connect, client, warnings, hostname,
                   cycle, wpCalls, sinkWrites, fault>>

Next ==
    \/ Startup
    \/ StartupFault
    \/ Collect
    \/ ReaderFault
    \/ DiskFault
    \/ Dispatch
    \/ DispatchFault
    \/ Sleep

Spec == Init /\ [][Next]_vars

----------------------------------------------------------------------------
(* What the properties below speak of *)

Paths == Split(APP_DISK_USAGE_PATHS)

Fields == json_body[1].fields

Looping == pc \in {"collecting", "dispatching", "sleeping"}

Suffixes == {S_total, S_used, S_free, S_percent}

FixedNames == {K_memory_total, K_memory_used, K_cpu_count, K_cpu_frequency, K_cpu_percent,
               K_cpu_load_1, K_cpu_load_5, K_cpu_load_15}

\* the sink configuration read from the environment is valid
ConfigValid == InfluxDBVars_valid(InfluxDBVars)

\* a variable is present: set, and not to the empty string
Present(name) == name \in DOMAIN environ /\ environ[name] # <<>>

RECURSIVE ProbeCount(_)
\* the number of probes of the first k chips
ProbeCount(k) == IF k = 0 THEN 0 ELSE Len(sensors[k].labels) + ProbeCount(k - 1)

\* the value the host reported for a suffix of a usage tuple
UsageValue(usage, suffix) ==
    CASE suffix = S_total -> usage.total
      [] suffix = S_used -> usage.used
      [] suffix = S_free -> usage.free
      [] suffix = S_percent -> usage.percent

\* the batch of this cycle is one Point: measurement sysmon, the hostname tag alone, and
\* fields that hold at least the eight fixed names
OnePointBatch ==
    /\ Len(json_body) = 1
    /\ json_body[1].measurement = "sysmon"
    /\ DOMAIN json_body[1].tags = {"hostname"}
    /\ json_body[1].tags.hostname = hostname
    /\ Truthy(hostname)
    /\ FixedNames \subseteq DOMAIN Fields

----------------------------------------------------------------------------
(* C1: a fault raised in a cycle by a metric reader or by the dispatch never *)
(* ends the loop: the process is never terminated by such a fault.           *)
C1_CycleFaultKeepsLooping ==
    ~(pc = "terminated" /\ fault \in {"memory", "cpu", "temperature", "disk_usage", "dispatch"})

(* C2: with --no-db not given and an invalid sink configuration, writing is  *)
(* disabled: no client is constructed and no write is ever forwarded.        *)
C2_InvalidConfigNeverWrites ==
    (pc # "start" /\ ~no_db /\ ~ConfigValid) => (~connect /\ ~client /\ sinkWrites = 0)

(* C3: with --no-db given, whatever the sink configuration: no client is     *)
(* constructed, nothing is warned, nothing is ever written to the sink, no   *)
(* client or dispatch fault can occur, and every cycle that reaches          *)
(* post_metrics hands one well-formed Point to DBClient.write_points.        *)
C3_SkipSinkNeverWrites ==
    (no_db /\ pc # "start") =>
        /\ ~connect
        /\ ~client
        /\ warnings = <<>>
        /\ sinkWrites = 0
        /\ fault \notin {"client", "dispatch"}
        /\ pc = "sleeping" => (wpCalls = cycle /\ OnePointBatch)

C3_Witness ==
    /\ no_db
    /\ pc = "sleeping"
    /\ cycle = 2
    /\ wpCalls = 2
    /\ ~ConfigValid
    /\ Present("INFLUXDB_PASSWORD")

(* C4: each of the eight fixed fields of the Point carries the value of the  *)
(* source record, zero included.                                             *)
C4_FixedFieldsCarrySourceValues ==
    pc = "sleeping" =>
        /\ Fields[K_memory_total] = metrics.memory.total
        /\ Fields[K_memory_used] = metrics.memory.used
        /\ Fields[K_cpu_count] = metrics.cpu.count
        /\ Fields[K_cpu_frequency] = metrics.cpu.frequency
        /\ Fields[K_cpu_percent] = metrics.cpu.percent
        /\ Fields[K_cpu_load_1] = metrics.cpu.load_1
        /\ Fields[K_cpu_load_5] = metrics.cpu.load_5
        /\ Fields[K_cpu_load_15] = metrics.cpu.load_15

(* C5: when the host query fails for one configured path and succeeds for    *)
(* another, the cycle goes on and the disk result holds exactly the four     *)
(* fields of every path whose query succeeded, with the values the host      *)
(* reported, and none for the failing path.                                  *)
C5_DiskFailureIsolated ==
    (\E i, j \in DOMAIN diskReading : ~diskReading[i].ok /\ diskReading[j].ok) =>
        /\ pc \in {"dispatching", "sleeping"}
        /\ DOMAIN metrics.disk_usage =
              {DiskKey(Paths[i], x) : i \in {j \in DOMAIN diskReading : diskReading[j].ok},
                                      x \in Suffixes}
        /\ \A i \in DOMAIN diskReading : \A x \in Suffixes :
              diskReading[i].ok =>
                  \E j \in DOMAIN diskReading :
                      /\ Paths[j] = Paths[i]
                      /\ diskReading[j].ok
                      /\ metrics.disk_usage[DiskKey(Paths[i], x)] = UsageValue(diskReading[j], x)

(* C6: cycles do not overlap and each makes exactly one write call: at the   *)
(* sleep of the n-th cycle write_points has been called n times, the batch   *)
(* is one Point (measurement sysmon, only tag hostname), and the sink has    *)
(* received one write per call when writing is enabled, none otherwise.      *)
C6_OneWritePerCycle ==
    /\ pc = "collecting" => wpCalls = cycle
    /\ pc = "dispatching" => wpCalls = cycle - 1
    /\ pc = "sleeping" => (wpCalls = cycle /\ OnePointBatch)
    /\ pc \in {"collecting", "dispatching"} => json_body = <<>>
    /\ sinkWrites = IF connect THEN wpCalls ELSE 0

C6_Witness ==
    /\ pc = "sleeping"
    /\ cycle = 2
    /\ connect
    /\ sinkWrites = 2

(* C7: with --no-db not given and an invalid sink configuration, exactly one *)
(* warning is logged, at startup; its password is the mask when a password   *)
(* is set, None when it is not, and never the password itself.               *)
C7_WarningOnceMasked ==
    /\ pc = "start" => warnings = <<>>
    /\ (pc # "start" /\ ~no_db /\ ~ConfigValid) =>
          /\ Len(warnings) = 1
          /\ Present("INFLUXDB_PASSWORD") =>
                (warnings[1].password = Mask
                 /\ warnings[1].password # environ["INFLUXDB_PASSWORD"])
          /\ ~Present("INFLUXDB_PASSWORD") => warnings[1].password = <<"N","o","n","e">>

C7_Witness ==
    /\ ~no_db
    /\ ~ConfigValid
    /\ Present("INFLUXDB_PASSWORD")
    /\ pc = "sleeping"
    /\ cycle = 2
    /\ Len(warnings) = 1

\* the disk result holds exactly four fields per listed path, named disk_usage_{p}_{stat},
\* each with the value the host reported for that path, and the Point's fields hold them
DiskFieldsPerPath ==
    /\ Cardinality(DOMAIN metrics.disk_usage) = 4 * Len(Paths)
    /\ DOMAIN metrics.disk_usage = {DiskKey(Paths[i], x) : i \in DOMAIN Paths, x \in Suffixes}
    /\ \A i \in DOMAIN Paths : \A x \in Suffixes :
          metrics.disk_usage[DiskKey(Paths[i], x)] = UsageValue(diskReading[i], x)
    /\ pc = "sleeping" =>
          \A k \in DOMAIN metrics.disk_usage :
              k \in DOMAIN Fields /\ Fields[k] = metrics.disk_usage[k]

PathsDistinct == \A i, j \in DOMAIN Paths : Paths[i] = Paths[j] => i = j

(* C8, as stated: for every list of N configured paths whose queries all     *)
(* succeed, get_disk_usage returns exactly 4 x N fields, disk_usage_{p}_     *)
(* total/used/free/percent for each path p, each with that path's value, and *)
(* all reach the Point's fields.                                             *)
C8_FourFieldsPerListedPath ==
    pc \in {"dispatching", "sleeping"} => DiskFieldsPerPath

(* C8, amended: the same, for every list of N pairwise distinct paths.       *)
C8_FourFieldsPerDistinctPath ==
    (pc \in {"dispatching", "sleeping"} /\ PathsDistinct) => DiskFieldsPerPath

C8_Witness ==
    /\ pc = "sleeping"
    /\ Len(Paths) = 2
    /\ Paths[1] # Paths[2]
    /\ diskReading[1] # diskReading[2]

\* the hostname the priority order names
PriorityHostname ==
    IF Present("APP_HOSTNAME") THEN environ["APP_HOSTNAME"]
    ELSE IF Present("HOST") THEN environ["HOST"]
    ELSE IF Present("HOSTNAME") THEN environ["HOSTNAME"]
    ELSE gethostname

(* C9: the hostname tag is the first present (set and not empty) of          *)
(* APP_HOSTNAME, HOST, HOSTNAME, else the OS hostname, in every cycle.       *)
C9_HostnamePriority ==
    /\ Looping => hostname = PriorityHostname
    /\ pc = "sleeping" => json_body[1].tags.hostname = PriorityHostname

(* C10: no two source values share a field name: the Point has as many       *)
(* fields as there are source values (the eight fixed ones, four per         *)
(* distinct disk path, one per temperature probe).                           *)
C10_FieldNamesUnique ==
    pc = "sleeping" =>
        Cardinality(DOMAIN Fields) =
            8 + 4 * Cardinality({Paths[i] : i \in DOMAIN Paths}) + ProbeCount(Len(sensors))

====
